---- MODULE Spec2Model ----
(***************************************************************************)
(* Identity / token subsystem of the vansh REST backend:                   *)
(* UserService (api/services/userService.js), EmailService                 *)
(* (api/utils/email/emailService.js) and the User, OTP and Token models.   *)
(* One action per service method; every action models the whole method,    *)
(* including the store calls and the hooks it triggers.                    *)
(***************************************************************************)
EXTENDS Integers, Sequences, FiniteSets, TLC

(***************************** bounds **************************************)
\* number of service calls in a run
MaxCalls == 4

\* request inputs; emails and usernames are already trimmed and lower-case,
\* as the schema setters would make them
Emails == {"a@x.com", "b@x.com"}
Passwords == {"secret1", "abc"}
Usernames == {"absent", "u1"}
\* values Math.random() makes generateOTP return
Codes == {"111111", "222222"}
\* resolution of the clock: readings per second
TicksPerSecond == 4

(************************ program constants ********************************)
OtpExpiryMinutes == 10
RefreshExpirationDays == 30
MinPasswordLength == 6
BAD_REQUEST == 400
UNAUTHORIZED == 401
FORBIDDEN == 403
NOT_FOUND == 404
INTERNAL_SERVER_ERROR == 500
MaxNameLength == 50
MobileDigits == 10

TicksPerMinute == 60 * TicksPerSecond
TicksPerDay == 24 * 60 * TicksPerMinute
\* clock readings (ticks since the start of the run): two instants of the
\* first second, and the instants at which a code and a
\* refresh token issued at 0 expire
TimePoints == {0, 1, OtpExpiryMinutes * TicksPerMinute,
               RefreshExpirationDays * TicksPerDay}

\* a field the JavaScript object does not have
Absent == "absent"
NoToken == <<>>
NoMobile == <<>>
\* a well-formed refresh token string that no call ever issued
ForgedToken == <<0, 0, 0>>

\* the three stores, the clock, the last call and its result, the number of
\* calls made, and the history the properties speak about
VARIABLES users, otps, tokens, now, res, calls, refreshed, registered, newest, superseded

\* the request handlers in flight: for each, the await it has reached, its
\* arguments, the documents it has read and, once it has returned, its result
VARIABLE procs

\* the Address collection
VARIABLE addresses

vars == <<users, otps, tokens, now, res, calls, refreshed, registered, newest, superseded, procs, addresses>>

\* handlers the event loop runs at a time
Procs == {1, 2}

(************************* pure helpers ************************************)
\* String length of the passwords the model submits
StrLen(s) == IF s = "abc" THEN 3 ELSE 7

\* salts bcrypt.genSalt(10) returns
Salts == {"salt"}

\* bcrypt.hash(password, salt): the version and cost prefix, the salt and
\* the digest of the input, in one string
bcryptHash(password, salt) == "$2a$10$" \o salt \o password

\* bcrypt.compare(candidate, hash): re-hash with the salt stored in the hash
bcryptCompare(candidate, hash) == \E salt \in Salts : bcryptHash(candidate, salt) = hash

\* comparePassword called without await: the pending promise is always truthy
comparePassword_NoAwait(user, candidatePassword) == TRUE

\* UserSchema.methods.comparePassword
comparePassword(user, candidatePassword) == bcryptCompare(candidatePassword, user.password)

\* moment().unix() / Math.floor(Date.now() / 1000)
Unix(ms) == ms \div TicksPerSecond

\* jwt.sign(payload, secret): a deterministic function of the payload, into
\* which jsonwebtoken also puts iat = current second
jwtSign(id, exp, t) == <<id, Unix(t), exp>>

\* UserSchema.methods.generateRefreshToken
generateRefreshToken(user, t) ==
  LET refreshTokenExpires == t + RefreshExpirationDays * TicksPerDay
  IN  [token |-> jwtSign(user._id, Unix(refreshTokenExpires), t),
       expires |-> refreshTokenExpires]

(************************* store queries ***********************************)
\* the lookup filters on another field than email
UsersByEmail_WrongField(email) == {u \in users : u.username = email}

\* User.findOne({ email })
UsersByEmail(email) == {u \in users : u.email = email}
\* User.findOne({ username })
UsersByUsername(username) == {u \in users : u.username = username}
\* User.findById(id)
UsersById(id) == {u \in users : u._id = id}

\* The result object a service method returns
Result(success, error, statusCode, message, data, token) ==
  [success |-> success, error |-> error, statusCode |-> statusCode,
   message |-> message, data |-> data, token |-> token]

\* The last call (its arguments), what it returned, and what became of the
\* mail it tried to send: "none", "sent" or "failed"
Call(op, email, secret, token, out, mail) ==
  [op |-> op, email |-> email, secret |-> secret, arg |-> token, out |-> out, mail |-> mail]

Fail(error, statusCode) == Result(FALSE, error, statusCode, Absent, 0, NoToken)

\* a handler slot in which no request has run yet
Idle ==
  [pc |-> "idle", op |-> "none", n |-> 0, email |-> Absent, secret |-> Absent,
   arg |-> NoToken, doc |-> {}, user |-> {}, raced |-> FALSE, out |-> Fail(Absent, 0)]

Init ==
  /\ users = {}
  /\ otps = {}
  /\ tokens = {}
  /\ addresses = {}
  /\ now = 0
  /\ calls = 0
  /\ res = Call("init", Absent, Absent, NoToken, Result(TRUE, Absent, 0, Absent, 0, NoToken), "none")
  /\ refreshed = {}
  /\ registered = {}
  /\ newest = [e \in Emails |-> Absent]
  /\ superseded = {}
  /\ procs = [p \in Procs |-> Idle]

(*************************** EmailService **********************************)
\* new OTP({ email, otp, purpose, expires }): the document with expires =
\* now + 10 minutes and the schema default isUsed = false
NewOtp(email, otpCode, purpose, t) ==
  [email |-> email, otp |-> otpCode, purpose |-> purpose,
   expires |-> t + OtpExpiryMinutes * TicksPerMinute,
   isUsed |-> FALSE, createdAt |-> t]

\* OTP.deleteMany({ email, purpose })
deleteManyOtps(store, email, purpose) ==
  {o \in store : ~(o.email = email /\ o.purpose = purpose)}

\* saveOTP without the deleteMany: the earlier codes stay in the store
saveOTP_NoDelete(store, email, otpCode, purpose, t) ==
  store \cup {NewOtp(email, otpCode, purpose, t)}

\* EmailService.saveOTP: OTP.deleteMany({ email, purpose }), then otp.save()
\* of the new code
saveOTP(store, email, otpCode, purpose, t) ==
  deleteManyOtps(store, email, purpose) \cup {NewOtp(email, otpCode, purpose, t)}

\* the filter with $gte in place of $gt
ActiveOtps_Inclusive(store, email, purpose, t) ==
  {o \in store : o.email = email /\ o.purpose = purpose /\ ~o.isUsed /\ o.expires >= t}

\* The filter of verifyOTP's OTP.findOne:
\* { email, purpose, isUsed: false, expires: { $gt: new Date() } }
ActiveOtps(store, email, purpose, t) ==
  {o \in store : o.email = email /\ o.purpose = purpose /\ ~o.isUsed /\ o.expires > t}

\* .sort({ createdAt: -1 }): the documents findOne may return
LatestOtps(matching) ==
  {o \in matching : \A p \in matching : p.createdAt <= o.createdAt}

\* isUsed set on the document but never saved
markUsed_NotSaved(store, o) == store

\* otp.isUsed = true; await otp.save()
markUsed(store, o) == (store \ {o}) \cup {[o EXCEPT !.isUsed = TRUE]}

\* verifyOTP without the comparison of the submitted code
verifyOTP_NoCompare(store, email, otpCode, purpose, t) ==
  LET matching == ActiveOtps(store, email, purpose, t)
  IN  IF matching = {}
      THEN {[ok |-> FALSE, store |-> store]}
      ELSE {[ok |-> TRUE, store |-> markUsed(store, o)] : o \in LatestOtps(matching)}

\* verifyOTP that spends the stored code on a failed comparison
verifyOTP_BurnOnMismatch(store, email, otpCode, purpose, t) ==
  LET matching == ActiveOtps(store, email, purpose, t)
  IN  IF matching = {}
      THEN {[ok |-> FALSE, store |-> store]}
      ELSE {[ok |-> o.otp = otpCode, store |-> markUsed(store, o)] : o \in LatestOtps(matching)}

\* EmailService.verifyOTP: the set of outcomes [ok, store] of one call
verifyOTP(store, email, otpCode, purpose, t) ==
  LET matching == ActiveOtps(store, email, purpose, t)
  IN  IF matching = {}
      THEN {[ok |-> FALSE, store |-> store]}
      ELSE {IF o.otp # otpCode
            THEN [ok |-> FALSE, store |-> store]
            ELSE [ok |-> TRUE, store |-> markUsed(store, o)] : o \in LatestOtps(matching)}

\* EmailService.sendVerificationOTP up to the sendMail call: generateOTP and
\* saveOTP(email, otpCode, 'verification'); otpCode is what generateOTP drew
sendVerificationOTP(store, email, otpCode, t) ==
  saveOTP(store, email, otpCode, "verification", t)

\* message of the error transporter.sendMail rejects with
MailError == "Mail delivery failed"

(**************************** UserService **********************************)
\* JavaScript truthiness of an optional string field
Truthy(v) == v # Absent /\ v # ""

\* the mobileNumber validator /^[6-9]\d{9}$/ on a string of digits
ValidMobile(v) ==
  /\ Len(v) = MobileDigits
  /\ v[1] \in 6..9
  /\ \A i \in 1..Len(v) : v[i] \in 0..9

\* the validators of the paths name and mobileNumber, run on the paths that are set
ValidProfile(name, mobileNumber) ==
  /\ name # Absent => Len(name) <= MaxNameLength
  /\ mobileNumber # NoMobile => ValidMobile(mobileNumber)

\* Mongoose validation run by User.create
ValidUser(userData) ==
  /\ StrLen(userData.password) >= MinPasswordLength
  /\ ValidProfile(userData.name, userData.mobileNumber)

\* the index on username alone: emails are not checked
IndexConflict_UsernameOnly(store, doc) ==
  \E u \in store : /\ u._id # doc._id
                    /\ doc.username # Absent /\ u.username = doc.username

\* the unique indexes on email and username: a write that would make doc
\* share an indexed value with another document fails with E11000
IndexConflict(store, doc) ==
  \E u \in store : /\ u._id # doc._id
                    /\ \/ u.email = doc.email
                       \/ doc.username # Absent /\ u.username = doc.username

DuplicateKey == "E11000 duplicate key error"

\* the hook without the isModified guard: every save hashes the password field
preSave_AlwaysHash(doc, modified, salt) ==
  [doc EXCEPT !.password = bcryptHash(doc.password, salt)]

\* UserSchema.pre('save'): hash the password only when the path is modified
preSave(doc, modified, salt) ==
  IF "password" \notin modified
  THEN doc
  ELSE [doc EXCEPT !.password = bcryptHash(doc.password, salt)]

\* User.create(userData): schema defaults, then the pre('save') hook on a new
\* document, all of whose given paths are modified
NewUser(store, userData, salt) ==
  preSave([_id |-> Cardinality(store) + 1,
           email |-> userData.email,
           name |-> userData.name,
           username |-> userData.username,
           mobileNumber |-> userData.mobileNumber,
           password |-> userData.password,
           isEmailVerified |-> FALSE,
           isMobileVerified |-> FALSE],
          {"email", "name", "username", "mobileNumber", "password"}, salt)

\* Token.create skipped: the token is returned without a stored record
saveRefreshToken_NotStored(store, token, userId, expires) == store

\* UserService.saveRefreshToken: Token.create({token, user, type, expires, blacklisted: false})
saveRefreshToken(store, token, userId, expires) ==
  store \cup {[_id |-> Cardinality(store) + 1, token |-> token, user |-> userId,
               type |-> "refresh", expires |-> expires, blacklisted |-> FALSE]}

\* UserService.generateAuthTokens: [refresh, store] after the refresh token
\* has been generated and recorded
generateAuthTokens(store, user, t) ==
  LET refreshTokenObj == generateRefreshToken(user, t)
  IN  [refresh |-> refreshTokenObj.token,
       store |-> saveRefreshToken(store, refreshTokenObj.token, user._id, refreshTokenObj.expires)]

\* The filter of refreshTokens' Token.findOne:
\* { token, type: 'refresh', blacklisted: false, expires: { $gt: new Date() } }
RefreshableTokens(store, refreshToken, t) ==
  {d \in store : d.token = refreshToken /\ d.type = "refresh"
                 /\ ~d.blacklisted /\ d.expires > t}

\* The filter of logoutUser's Token.findOne:
\* { token, type: 'refresh', blacklisted: false }
LogoutTokens(store, refreshToken) ==
  {d \in store : d.token = refreshToken /\ d.type = "refresh" /\ ~d.blacklisted}

\* Token.findByIdAndUpdate(id, { blacklisted: true })
blacklist(store, id) ==
  {IF d._id = id THEN [d EXCEPT !.blacklisted = TRUE] ELSE d : d \in store}

\* one more service call starts
Called == calls < MaxCalls /\ calls' = calls + 1 /\ UNCHANGED <<procs, addresses>>

\* history: the codes of (email, 'verification') that this issuance replaces
\* while they are unused and unexpired, and the code it issues
Issued(email, otpCode) ==
  /\ newest' = [newest EXCEPT ![email] = otpCode]
  /\ superseded' = superseded \cup
       {<<o.email, o.otp>> : o \in ActiveOtps(otps, email, "verification", now)}

\* the dispatch error reaches createUser's outer catch
CreatedResult_Fatal(user, mailOk) ==
  IF mailOk
  THEN Result(TRUE, Absent, 0, "User created successfully. Verification OTP sent to email.",
              user._id, NoToken)
  ELSE Fail(MailError, INTERNAL_SERVER_ERROR)

\* what createUser returns once the user is created (the two return
\* statements after User.create)
CreatedResult(user, mailOk) ==
  Result(TRUE, Absent, 0,
         IF mailOk
         THEN "User created successfully. Verification OTP sent to email."
         ELSE "User created successfully but failed to send verification email.",
         user._id, NoToken)

\* UserService.createUser
createUser(userData, otpCode, mailOk) ==
  LET call(out, mail) == Call("createUser", userData.email, userData.password, NoToken, out, mail)
  IN
  /\ Called
  /\ UNCHANGED <<tokens, now, refreshed>>
  /\ IF UsersByEmail(userData.email) # {}
     THEN /\ res' = call(Fail("Email already registered", BAD_REQUEST), "none")
          /\ UNCHANGED <<users, otps, registered, newest, superseded>>
     ELSE IF Truthy(userData.username) /\ UsersByUsername(userData.username) # {}
     THEN /\ res' = call(Fail("Username already taken", BAD_REQUEST), "none")
          /\ UNCHANGED <<users, otps, registered, newest, superseded>>
     ELSE IF ~ValidUser(userData)
     THEN /\ res' = call(Fail("User validation failed", INTERNAL_SERVER_ERROR), "none")
          /\ UNCHANGED <<users, otps, registered, newest, superseded>>
     ELSE IF IndexConflict(users, NewUser(users, userData, "salt"))
     THEN /\ res' = call(Fail(DuplicateKey, INTERNAL_SERVER_ERROR), "none")
          /\ UNCHANGED <<users, otps, registered, newest, superseded>>
     ELSE LET user == NewUser(users, userData, "salt")
          IN  /\ users' = users \cup {user}
              /\ otps' = sendVerificationOTP(otps, user.email, otpCode, now)
              /\ Issued(user.email, otpCode)
              /\ registered' = registered \cup {user.email}
              /\ res' = call(CreatedResult(user, mailOk), IF mailOk THEN "sent" ELSE "failed")

\* UserService.verifyEmail
verifyEmail(email, otp) ==
  LET call(out) == Call("verifyEmail", email, otp, NoToken, out, "none")
  IN
  /\ Called
  /\ UNCHANGED <<now, refreshed, registered, newest, superseded>>
  /\ \E v \in verifyOTP(otps, email, otp, "verification", now) :
       IF ~v.ok
       THEN /\ otps' = v.store
            /\ res' = call(Fail("Invalid or expired OTP", BAD_REQUEST))
            /\ UNCHANGED <<users, tokens>>
       ELSE IF UsersByEmail(email) = {}
       THEN /\ otps' = v.store
            /\ res' = call(Fail("User not found", NOT_FOUND))
            /\ UNCHANGED <<users, tokens>>
       ELSE \E u \in UsersByEmail(email) :
              LET user == preSave([u EXCEPT !.isEmailVerified = TRUE], {"isEmailVerified"}, "salt")
                  issued == generateAuthTokens(tokens, user, now)
              IN  /\ otps' = v.store
                  /\ users' = (users \ {u}) \cup {user}
                  /\ tokens' = issued.store
                  /\ res' = call(Result(TRUE, Absent, 0, "Email verified successfully",
                                        user._id, issued.refresh))

\* resendVerificationOTP without the isEmailVerified check
resendVerificationOTP_NoVerifiedCheck(email, otpCode, mailOk) ==
  LET call(out, mail) == Call("resendVerificationOTP", email, Absent, NoToken, out, mail)
  IN
  /\ Called
  /\ UNCHANGED <<users, tokens, now, refreshed, registered>>
  /\ IF UsersByEmail(email) = {}
     THEN /\ res' = call(Fail("User not found", NOT_FOUND), "none")
          /\ UNCHANGED <<otps, newest, superseded>>
     ELSE /\ otps' = sendVerificationOTP(otps, email, otpCode, now)
          /\ Issued(email, otpCode)
          /\ res' = IF mailOk
                    THEN call(Result(TRUE, Absent, 0, "Verification OTP sent successfully",
                                     0, NoToken), "sent")
                    ELSE call(Fail(MailError, INTERNAL_SERVER_ERROR), "failed")

\* UserService.resendVerificationOTP
resendVerificationOTP(email, otpCode, mailOk) ==
  LET call(out, mail) == Call("resendVerificationOTP", email, Absent, NoToken, out, mail)
  IN
  /\ Called
  /\ UNCHANGED <<users, tokens, now, refreshed, registered>>
  /\ IF UsersByEmail(email) = {}
     THEN /\ res' = call(Fail("User not found", NOT_FOUND), "none")
          /\ UNCHANGED <<otps, newest, superseded>>
     ELSE \E user \in UsersByEmail(email) :
            IF user.isEmailVerified
            THEN /\ res' = call(Fail("Email already verified", BAD_REQUEST), "none")
                 /\ UNCHANGED <<otps, newest, superseded>>
            ELSE /\ otps' = sendVerificationOTP(otps, email, otpCode, now)
                 /\ Issued(email, otpCode)
                 /\ res' = IF mailOk
                           THEN call(Result(TRUE, Absent, 0, "Verification OTP sent successfully",
                                            0, NoToken), "sent")
                           ELSE call(Fail(MailError, INTERNAL_SERVER_ERROR), "failed")

\* loginUser without the isEmailVerified check
loginUser_NoVerifiedCheck(email, password, otpCode, mailOk) ==
  LET call(out, mail) == Call("loginUser", email, password, NoToken, out, mail)
  IN
  /\ Called
  /\ UNCHANGED <<users, now, refreshed, registered, otps, newest, superseded>>
  /\ IF UsersByEmail(email) = {}
     THEN /\ res' = call(Fail("Invalid credentials", UNAUTHORIZED), "none")
          /\ UNCHANGED tokens
     ELSE \E user \in UsersByEmail(email) :
            IF ~comparePassword(user, password)
            THEN /\ res' = call(Fail("Invalid credentials", UNAUTHORIZED), "none")
                 /\ UNCHANGED tokens
            ELSE LET issued == generateAuthTokens(tokens, user, now)
                 IN  /\ tokens' = issued.store
                     /\ res' = call(Result(TRUE, Absent, 0, Absent, user._id, issued.refresh), "none")

\* UserService.loginUser
loginUser(email, password, otpCode, mailOk) ==
  LET call(out, mail) == Call("loginUser", email, password, NoToken, out, mail)
  IN
  /\ Called
  /\ UNCHANGED <<users, now, refreshed, registered>>
  /\ IF UsersByEmail(email) = {}
     THEN /\ res' = call(Fail("Invalid credentials", UNAUTHORIZED), "none")
          /\ UNCHANGED <<otps, tokens, newest, superseded>>
     ELSE \E user \in UsersByEmail(email) :
            IF ~comparePassword(user, password)
            THEN /\ res' = call(Fail("Invalid credentials", UNAUTHORIZED), "none")
                 /\ UNCHANGED <<otps, tokens, newest, superseded>>
            ELSE IF ~user.isEmailVerified
            THEN /\ otps' = sendVerificationOTP(otps, email, otpCode, now)
                 /\ Issued(email, otpCode)
                 /\ res' = IF mailOk
                           THEN call(Result(FALSE, "Email not verified", FORBIDDEN,
                                            "Verification OTP has been sent to your email",
                                            0, NoToken), "sent")
                           ELSE call(Fail(MailError, INTERNAL_SERVER_ERROR), "failed")
                 /\ UNCHANGED tokens
            ELSE LET issued == generateAuthTokens(tokens, user, now)
                 IN  /\ tokens' = issued.store
                     /\ res' = call(Result(TRUE, Absent, 0, Absent, user._id, issued.refresh), "none")
                     /\ UNCHANGED <<otps, newest, superseded>>

\* UserService.refreshTokens
refreshTokens(refreshToken) ==
  LET call(out) == Call("refreshTokens", Absent, Absent, refreshToken, out, "none")
      found == RefreshableTokens(tokens, refreshToken, now)
  IN
  /\ Called
  /\ UNCHANGED <<users, otps, now, registered, newest, superseded>>
  /\ IF found = {}
     THEN /\ res' = call(Fail("Invalid refresh token", UNAUTHORIZED))
          /\ UNCHANGED <<tokens, refreshed>>
     ELSE \E tokenDoc \in found :
            IF UsersById(tokenDoc.user) = {}
            THEN /\ res' = call(Fail("User not found", UNAUTHORIZED))
                 /\ UNCHANGED <<tokens, refreshed>>
            ELSE \E user \in UsersById(tokenDoc.user) :
                   LET issued == generateAuthTokens(blacklist(tokens, tokenDoc._id), user, now)
                   IN  /\ tokens' = issued.store
                       /\ refreshed' = refreshed \cup {refreshToken}
                       /\ res' = call(Result(TRUE, Absent, 0, Absent, 0, issued.refresh))

\* UserService.logoutUser
logoutUser(refreshToken) ==
  LET call(out) == Call("logoutUser", Absent, Absent, refreshToken, out, "none")
      found == LogoutTokens(tokens, refreshToken)
  IN
  /\ Called
  /\ UNCHANGED <<users, otps, now, refreshed, registered, newest, superseded>>
  /\ IF found = {}
     THEN /\ res' = call(Fail("Invalid refresh token", BAD_REQUEST))
          /\ UNCHANGED tokens
     ELSE \E tokenDoc \in found :
            /\ tokens' = blacklist(tokens, tokenDoc._id)
            /\ res' = call(Result(TRUE, Absent, 0, "Logged out successfully", 0, NoToken))

\* the key list extended with the credential and verification paths
allowedUpdates_WithCredentials ==
  {"name", "username", "mobileNumber", "email", "password", "isEmailVerified", "isMobileVerified"}

\* const allowedUpdates = ['name', 'username', 'mobileNumber']
allowedUpdates == {"name", "username", "mobileNumber"}

\* Object.keys(updateData).filter(key => allowedUpdates.includes(key)).reduce(...)
filteredUpdates(updateData) ==
  [key \in DOMAIN updateData \cap allowedUpdates |-> updateData[key]]

\* the document after the $set of the given paths
Updated(doc, updates) ==
  [key \in DOMAIN doc |-> IF key \in DOMAIN updates THEN updates[key] ELSE doc[key]]

\* updateData[key], or none when the object has no such key
Get(updateData, key, none) == IF key \in DOMAIN updateData THEN updateData[key] ELSE none

\* the data object updateUserProfile returns
ProfileData(user) ==
  [id |-> user._id, email |-> user.email, name |-> user.name, username |-> user.username,
   mobileNumber |-> user.mobileNumber, isEmailVerified |-> user.isEmailVerified,
   isMobileVerified |-> user.isMobileVerified]

\* User.findOne({ username, _id: { $ne: userId } })
UsernameOwners(username, userId) == {u \in UsersByUsername(username) : u._id # userId}

\* UserService.updateUserProfile: the username check, the key filter, then
\* User.findByIdAndUpdate(userId, filteredUpdates, {new: true, runValidators: true}),
\* which validates the update, finds the document and writes it
updateUserProfile(userId, updateData) ==
  LET call(out) == [op |-> "updateUserProfile", email |-> Absent, secret |-> Absent,
                    arg |-> NoToken, out |-> out, mail |-> "none",
                    userId |-> userId, updateData |-> updateData]
      updates == filteredUpdates(updateData)
  IN
  /\ Called
  /\ UNCHANGED <<otps, tokens, now, refreshed, registered, newest, superseded>>
  /\ IF /\ Truthy(Get(updateData, "username", Absent))
        /\ UsernameOwners(updateData.username, userId) # {}
     THEN /\ res' = call(Fail("Username already taken", BAD_REQUEST))
          /\ UNCHANGED users
     ELSE IF ~ValidProfile(Get(updates, "name", Absent), Get(updates, "mobileNumber", NoMobile))
     THEN /\ res' = call(Fail("Validation failed", INTERNAL_SERVER_ERROR))
          /\ UNCHANGED users
     ELSE IF UsersById(userId) = {}
     THEN /\ res' = call(Fail("User not found", NOT_FOUND))
          /\ UNCHANGED users
     ELSE \E u \in UsersById(userId) :
            LET user == Updated(u, updates)
            IN  IF IndexConflict(users, user)
                THEN /\ res' = call(Fail(DuplicateKey, INTERNAL_SERVER_ERROR))
                     /\ UNCHANGED users
                ELSE /\ users' = (users \ {u}) \cup {user}
                     /\ res' = call(Result(TRUE, Absent, 0, Absent, ProfileData(user), NoToken))

\* token strings a client can present: every string ever recorded, and a forged one
PresentableTokens == {d.token : d \in tokens} \cup {ForgedToken}

Register ==
  \E email \in Emails, password \in Passwords, username \in Usernames,
     otpCode \in Codes, mailOk \in BOOLEAN :
    createUser([email |-> email, password |-> password, username |-> username,
                name |-> Absent, mobileNumber |-> NoMobile], otpCode, mailOk)

Verify == \E email \in Emails, otp \in Codes : verifyEmail(email, otp)

Resend == \E email \in Emails, otpCode \in Codes, mailOk \in BOOLEAN :
            resendVerificationOTP(email, otpCode, mailOk)

Login == \E email \in Emails, password \in Passwords, otpCode \in Codes, mailOk \in BOOLEAN :
           loginUser(email, password, otpCode, mailOk)

Refresh == \E t \in PresentableTokens : refreshTokens(t)

Logout == \E t \in PresentableTokens : logoutUser(t)

\* The clock moves forward between two calls
Tick ==
  /\ \E t \in TimePoints : t > now /\ now' = t
  /\ UNCHANGED <<users, otps, tokens, res, calls, refreshed, registered, newest, superseded, procs, addresses>>

(* the profile operations: registration with a name, verification, login   *)
(* and PATCH /profile, all at one instant and with mail sends that succeed  *)
Mobiles == {<<9, 8, 7, 6, 5, 4, 3, 2, 1, 0>>, <<1, 2, 3>>}
ProfilePasswords == {"secret1", "secret2"}

\* the object { key: value }, or {} when the request leaves the key out
Opt(key, value, none) == IF value = none THEN <<>> ELSE key :> value

\* the keys of the credential and verification paths in a request body
Credentials ==
  [email |-> "c@x.com", password |-> "secret3", isEmailVerified |-> TRUE, isMobileVerified |-> TRUE]

\* request bodies of PATCH /profile: name and username present or not, and
\* either nothing else, a mobile number, or a mobile number and the
\* credential keys
Bodies ==
  {Opt("name", name, Absent) @@ Opt("username", username, Absent)
     @@ Opt("mobileNumber", mobileNumber, NoMobile)
     @@ (IF extra THEN Credentials ELSE <<>>) :
   name \in {Absent, "Ravi"}, username \in {Absent, "u1", ""},
   mobileNumber \in {NoMobile} \cup Mobiles, extra \in BOOLEAN}

RegisterProfile ==
  \E email \in Emails, password \in ProfilePasswords, username \in Usernames :
    createUser([email |-> email, password |-> password, username |-> username,
                name |-> "Asha", mobileNumber |-> NoMobile], "111111", TRUE)

VerifyProfile == \E email \in Emails : verifyEmail(email, "111111")

LoginProfile == \E email \in Emails, password \in ProfilePasswords :
                  loginUser(email, password, "111111", TRUE)

Update == \E userId \in {u._id : u \in users} \cup {0}, updateData \in Bodies :
            updateUserProfile(userId, updateData)

NextProfile == RegisterProfile \/ VerifyProfile \/ LoginProfile \/ Update

SpecProfile == Init /\ [][NextProfile]_vars

(* every account operation, at one instant and with mail sends that succeed *)
ResendAccount == \E email \in Emails : resendVerificationOTP(email, "222222", TRUE)

NextAccount ==
  RegisterProfile \/ VerifyProfile \/ ResendAccount \/ LoginProfile \/ Refresh \/ Logout \/ Update

SpecAccount == Init /\ [][NextAccount]_vars

(************************ interleaved handlers ******************************)
(* The same service methods, one action per await: a handler runs up to its *)
(* next store call, and the event loop may run the other handler in between. *)
(* Documents the handlers insert carry the _id the store gives them.         *)

\* the code generateOTP draws in handler p
CodeOf(p) == IF p = 1 THEN "111111" ELSE "222222"

\* message of Mongoose's DocumentNotFoundError, thrown by save() when the
\* document is no longer in the collection
DocumentNotFound == "No document found for query"

\* message of the error a failing Token.create rejects with
StoreError == "Token store failure"

\* a request enters handler slot p: the slot is free and one more call starts
Enter(p) ==
  /\ procs[p].pc \in {"idle", "done"}
  /\ calls < MaxCalls
  /\ calls' = calls + 1

\* the state of a handler that has just been called
Begin(op, email, secret, token) ==
  [Idle EXCEPT !.op = op, !.n = calls + 1, !.email = email, !.secret = secret, !.arg = token]

\* handler p goes on to the await pc, with the fields of its state changed to r
Goto(p, r, pc) == procs' = [procs EXCEPT ![p] = [r EXCEPT !.pc = pc]]

\* handler p returns out
Return(p, r, out) == procs' = [procs EXCEPT ![p] = [r EXCEPT !.pc = "done", !.out = out]]

\* what the interleaved handlers leave alone
Frame == UNCHANGED <<now, res, refreshed, registered, newest, superseded, addresses>>

\* createUser up to User.findOne({ email })
createUser_findOne(p, email, password) ==
  LET r == Begin("createUser", email, password, NoToken)
  IN  /\ Enter(p)
      /\ Frame
      /\ UNCHANGED <<users, otps, tokens>>
      /\ IF UsersByEmail(email) # {}
         THEN Return(p, r, Fail("Email already registered", BAD_REQUEST))
         ELSE Goto(p, r, "User.create")

\* createUser: User.create(userData), which the unique index on email rejects
\* when another document has the email by now
createUser_create(p) ==
  LET r == procs[p]
      userData == [email |-> r.email, password |-> r.secret, username |-> Absent,
                   name |-> Absent, mobileNumber |-> NoMobile]
      user == [NewUser(users, userData, "salt") EXCEPT !._id = r.n]
  IN  /\ r.pc = "User.create"
      /\ Frame
      /\ UNCHANGED <<otps, tokens, calls>>
      /\ IF IndexConflict(users, user)
         THEN /\ Return(p, r, Fail(DuplicateKey, INTERNAL_SERVER_ERROR))
              /\ UNCHANGED users
         ELSE /\ users' = users \cup {user}
              /\ Goto(p, [r EXCEPT !.user = {user}], "OTP.deleteMany")

\* resendVerificationOTP up to User.findOne({ email }) and the two checks
resendVerificationOTP_findOne(p, email) ==
  LET r == Begin("resendVerificationOTP", email, Absent, NoToken)
  IN  /\ Enter(p)
      /\ Frame
      /\ UNCHANGED <<users, otps, tokens>>
      /\ IF UsersByEmail(email) = {}
         THEN Return(p, r, Fail("User not found", NOT_FOUND))
         ELSE \E user \in UsersByEmail(email) :
                IF user.isEmailVerified
                THEN Return(p, r, Fail("Email already verified", BAD_REQUEST))
                ELSE Goto(p, [r EXCEPT !.user = {user}], "OTP.deleteMany")

\* the deleteMany that removes nothing
saveOTP_deleteMany_Nothing(p) ==
  LET r == procs[p]
  IN  /\ r.pc = "OTP.deleteMany"
      /\ Frame
      /\ UNCHANGED <<users, otps, tokens, calls>>
      /\ Goto(p, r, "otp.save")

\* saveOTP: await OTP.deleteMany({ email, purpose })
saveOTP_deleteMany(p) ==
  LET r == procs[p]
  IN  /\ r.pc = "OTP.deleteMany"
      /\ Frame
      /\ UNCHANGED <<users, tokens, calls>>
      /\ otps' = deleteManyOtps(otps, r.email, "verification")
      /\ Goto(p, r, "otp.save")

\* saveOTP: await otp.save() of the new code, after which the handler sends
\* the mail and returns; a handler that is between its deleteMany and its
\* save for the same email has been overtaken (raced)
saveOTP_save(p) ==
  LET r == procs[p]
      otp == NewOtp(r.email, CodeOf(p), "verification", now) @@ [_id |-> r.n]
      out == IF r.op = "createUser"
             THEN CHOOSE c \in {CreatedResult(u, TRUE) : u \in r.user} : TRUE
             ELSE Result(TRUE, Absent, 0, "Verification OTP sent successfully", 0, NoToken)
  IN  /\ r.pc = "otp.save"
      /\ Frame
      /\ UNCHANGED <<users, tokens, calls>>
      /\ otps' = otps \cup {otp}
      /\ procs' = [q \in Procs |->
                     IF q = p
                     THEN [r EXCEPT !.pc = "done", !.out = out, !.doc = {otp}]
                     ELSE IF procs[q].pc = "otp.save" /\ procs[q].email = r.email
                     THEN [procs[q] EXCEPT !.raced = TRUE]
                     ELSE procs[q]]

\* verifyOTP up to OTP.findOne(...).sort({ createdAt: -1 }) and the comparison
verifyEmail_findOne(p, email, otp) ==
  LET r == Begin("verifyEmail", email, otp, NoToken)
      matching == ActiveOtps(otps, email, "verification", now)
  IN  /\ Enter(p)
      /\ Frame
      /\ UNCHANGED <<users, otps, tokens>>
      /\ IF matching = {}
         THEN Return(p, r, Fail("Invalid or expired OTP", BAD_REQUEST))
         ELSE \E o \in LatestOtps(matching) :
                IF o.otp # otp
                THEN Return(p, r, Fail("Invalid or expired OTP", BAD_REQUEST))
                ELSE Goto(p, [r EXCEPT !.doc = {o}], "otp.isUsed")

\* the save that does not write isUsed
verifyEmail_markUsed_NotSaved(p) ==
  LET r == procs[p]
  IN  /\ r.pc = "otp.isUsed"
      /\ Frame
      /\ UNCHANGED <<users, otps, tokens, calls>>
      /\ Goto(p, r, "User.findOne")

\* verifyOTP: otp.isUsed = true; await otp.save(), an update of the document
\* with the _id that was read
verifyEmail_markUsed(p) ==
  LET r == procs[p]
  IN  /\ r.pc = "otp.isUsed"
      /\ Frame
      /\ UNCHANGED <<users, tokens, calls>>
      /\ \E o \in r.doc :
           IF \E d \in otps : d._id = o._id
           THEN /\ otps' = {IF d._id = o._id THEN [d EXCEPT !.isUsed = TRUE] ELSE d : d \in otps}
                /\ Goto(p, r, "User.findOne")
           ELSE /\ UNCHANGED otps
                /\ Return(p, r, Fail(DocumentNotFound, INTERNAL_SERVER_ERROR))

\* verifyEmail: User.findOne({ email })
verifyEmail_findUser(p) ==
  LET r == procs[p]
  IN  /\ r.pc = "User.findOne"
      /\ Frame
      /\ UNCHANGED <<users, otps, tokens, calls>>
      /\ IF UsersByEmail(r.email) = {}
         THEN Return(p, r, Fail("User not found", NOT_FOUND))
         ELSE \E u \in UsersByEmail(r.email) : Goto(p, [r EXCEPT !.user = {u}], "user.save")

\* verifyEmail: user.isEmailVerified = true; await user.save(), an update of
\* the modified path of the document with the _id that was read
verifyEmail_saveUser(p) ==
  LET r == procs[p]
  IN  /\ r.pc = "user.save"
      /\ Frame
      /\ UNCHANGED <<otps, tokens, calls>>
      /\ \E u \in r.user :
           LET user == preSave([u EXCEPT !.isEmailVerified = TRUE], {"isEmailVerified"}, "salt")
           IN  IF UsersById(u._id) # {}
               THEN /\ users' = {IF v._id = u._id THEN [v EXCEPT !.isEmailVerified = TRUE] ELSE v :
                                 v \in users}
                    /\ Goto(p, [r EXCEPT !.user = {user}], "Token.create")
               ELSE /\ UNCHANGED users
                    /\ Return(p, r, Fail(DocumentNotFound, INTERNAL_SERVER_ERROR))

\* generateAuthTokens for the user the handler holds: Token.create, which
\* succeeds or rejects, then the return of verifyEmail or refreshTokens
generateAuthTokens_create(p, storeOk) ==
  LET r == procs[p]
  IN  /\ r.pc = "Token.create"
      /\ Frame
      /\ UNCHANGED <<users, otps, calls>>
      /\ \E user \in r.user :
           LET issued == generateAuthTokens(tokens, user, now)
           IN  IF storeOk
               THEN /\ tokens' = issued.store
                    /\ Return(p, r, Result(TRUE, Absent, 0,
                                           IF r.op = "verifyEmail"
                                           THEN "Email verified successfully" ELSE Absent,
                                           user._id, issued.refresh))
               ELSE /\ UNCHANGED tokens
                    /\ Return(p, r, Fail(StoreError, INTERNAL_SERVER_ERROR))

\* refreshTokens up to Token.findOne({ token, type, blacklisted: false, expires })
refreshTokens_findOne(p, refreshToken) ==
  LET r == Begin("refreshTokens", Absent, Absent, refreshToken)
      found == RefreshableTokens(tokens, refreshToken, now)
  IN  /\ Enter(p)
      /\ Frame
      /\ UNCHANGED <<users, otps, tokens>>
      /\ IF found = {}
         THEN Return(p, r, Fail("Invalid refresh token", UNAUTHORIZED))
         ELSE \E tokenDoc \in found : Goto(p, [r EXCEPT !.doc = {tokenDoc}], "User.findById")

\* refreshTokens: User.findById(tokenDoc.user)
refreshTokens_findById(p) ==
  LET r == procs[p]
  IN  /\ r.pc = "User.findById"
      /\ Frame
      /\ UNCHANGED <<users, otps, tokens, calls>>
      /\ \E tokenDoc \in r.doc :
           IF UsersById(tokenDoc.user) = {}
           THEN Return(p, r, Fail("User not found", UNAUTHORIZED))
           ELSE \E user \in UsersById(tokenDoc.user) :
                  Goto(p, [r EXCEPT !.user = {user}], "Token.findByIdAndUpdate")

\* the blacklisting as a conditional update: it rejects when the record is
\* blacklisted by now
refreshTokens_blacklist_CompareAndSwap(p) ==
  LET r == procs[p]
  IN  /\ r.pc = "Token.findByIdAndUpdate"
      /\ Frame
      /\ UNCHANGED <<users, otps, calls>>
      /\ \E tokenDoc \in r.doc :
           IF \E d \in tokens : d._id = tokenDoc._id /\ ~d.blacklisted
           THEN /\ tokens' = blacklist(tokens, tokenDoc._id)
                /\ Goto(p, r, "Token.create")
           ELSE /\ UNCHANGED tokens
                /\ Return(p, r, Fail("Invalid refresh token", UNAUTHORIZED))

\* refreshTokens: Token.findByIdAndUpdate(tokenDoc._id, { blacklisted: true })
refreshTokens_blacklist(p) ==
  LET r == procs[p]
  IN  /\ r.pc = "Token.findByIdAndUpdate"
      /\ Frame
      /\ UNCHANGED <<users, otps, calls>>
      /\ \E tokenDoc \in r.doc :
           /\ tokens' = blacklist(tokens, tokenDoc._id)
           /\ Goto(p, r, "Token.create")

\* outside the service: a user document is removed from the store (no
\* service method deletes users; refreshTokens and verifyEmail handle the miss)
UserRemoved ==
  /\ calls < MaxCalls
  /\ calls' = calls + 1
  /\ Frame
  /\ UNCHANGED <<otps, tokens, procs>>
  /\ \E u \in users : users' = users \ {u}

RaceRegister == \E p \in Procs : createUser_findOne(p, "a@x.com", "secret1")
RaceCreate == \E p \in Procs : createUser_create(p)
RaceResend == \E p \in Procs : resendVerificationOTP_findOne(p, "a@x.com")
RaceDeleteMany == \E p \in Procs : saveOTP_deleteMany(p)
RaceOtpSave == \E p \in Procs : saveOTP_save(p)
RaceVerify == \E p \in Procs, otp \in Codes : verifyEmail_findOne(p, "a@x.com", otp)
RaceMarkUsed == \E p \in Procs : verifyEmail_markUsed(p)
RaceFindUser == \E p \in Procs : verifyEmail_findUser(p)
RaceSaveUser == \E p \in Procs : verifyEmail_saveUser(p)
RaceTokenCreate == \E p \in Procs, storeOk \in BOOLEAN : generateAuthTokens_create(p, storeOk)
RaceRefresh == \E p \in Procs, t \in PresentableTokens : refreshTokens_findOne(p, t)
RaceFindById == \E p \in Procs : refreshTokens_findById(p)
RaceBlacklist == \E p \in Procs : refreshTokens_blacklist(p)

NextRace ==
  \/ RaceRegister \/ RaceCreate \/ RaceResend \/ RaceDeleteMany \/ RaceOtpSave
  \/ RaceVerify \/ RaceMarkUsed \/ RaceFindUser \/ RaceSaveUser \/ RaceTokenCreate
  \/ RaceRefresh \/ RaceFindById \/ RaceBlacklist \/ UserRemoved

SpecRace == Init /\ [][NextRace]_vars

(* AddressService, with its handlers interleaved at their awaits. A save is  *)
(* two store operations: the updateMany of the pre('save') hook and the      *)
(* write of the saved document.                                              *)
\* users that own addresses (req.user._id)
AddressUsers == {1, 2}

\* address ids a request can name (req.params.id)
AddressIds == 1..MaxCalls

\* request bodies of PUT /:id, as far as the default flag goes: without the
\* key, { isDefault: true }, { isDefault: false }
AddressBodies == {<<>>} \cup {"isDefault" :> v : v \in BOOLEAN}

\* the state of an address handler that has just been called
BeginAddress(op) ==
  [pc |-> "idle", op |-> op, n |-> calls + 1, doc |-> {}, isNew |-> FALSE,
   modified |-> FALSE, out |-> Absent]

\* what the address handlers leave alone
AddressFrame ==
  UNCHANGED <<users, otps, tokens, now, res, refreshed, registered, newest, superseded>>

\* handler p returns out; its locals go out of scope
Finish(p, r, out) ==
  Return(p, [r EXCEPT !.n = 0, !.doc = {}, !.isNew = FALSE, !.modified = FALSE], out)

\* Address.find({ userId })
AddressesOf(userId) == {a \in addresses : a.userId = userId}

\* Address.findOne({ _id: addressId, userId })
FindAddress(addressId, userId) == {a \in AddressesOf(userId) : a._id = addressId}

\* createAddress up to Address.countDocuments({ userId }) and new Address()
createAddress_countDocuments(p, userId, isDefault) ==
  LET r == BeginAddress("createAddress")
      addressCount == Cardinality(AddressesOf(userId))
      newAddress == [_id |-> r.n, userId |-> userId,
                     isDefault |-> IF addressCount = 0 THEN TRUE ELSE isDefault,
                     updatedAt |-> now]
  IN  /\ Enter(p)
      /\ AddressFrame
      /\ UNCHANGED addresses
      /\ Goto(p, [r EXCEPT !.doc = {newAddress}, !.isNew = TRUE], "pre('save')")

\* updateAddress up to Address.findOne and the assignment of the body's keys
updateAddress_findOne(p, addressId, addressData, userId) ==
  LET r == BeginAddress("updateAddress")
  IN  /\ Enter(p)
      /\ AddressFrame
      /\ UNCHANGED addresses
      /\ IF FindAddress(addressId, userId) = {}
         THEN Finish(p, r, "Address not found")
         ELSE \E address \in FindAddress(addressId, userId) :
                LET updated == IF "isDefault" \in DOMAIN addressData
                               THEN [address EXCEPT !.isDefault = addressData.isDefault]
                               ELSE address
                IN  Goto(p, [r EXCEPT !.doc = {updated}, !.modified = (updated # address)],
                         "pre('save')")

\* setDefaultAddress up to Address.findOne and address.isDefault = true
setDefaultAddress_findOne(p, addressId, userId) ==
  LET r == BeginAddress("setDefaultAddress")
  IN  /\ Enter(p)
      /\ AddressFrame
      /\ UNCHANGED addresses
      /\ IF FindAddress(addressId, userId) = {}
         THEN Finish(p, r, "Address not found")
         ELSE \E address \in FindAddress(addressId, userId) :
                Goto(p, [r EXCEPT !.doc = {[address EXCEPT !.isDefault = TRUE]},
                                  !.modified = ~address.isDefault],
                     "pre('save')")

\* deleteAddress up to Address.findOne
deleteAddress_findOne(p, addressId, userId) ==
  LET r == BeginAddress("deleteAddress")
  IN  /\ Enter(p)
      /\ AddressFrame
      /\ UNCHANGED addresses
      /\ IF FindAddress(addressId, userId) = {}
         THEN Finish(p, r, "Address not found")
         ELSE \E address \in FindAddress(addressId, userId) :
                Goto(p, [r EXCEPT !.doc = {address}], "address.deleteOne")

\* deleteAddress: address.deleteOne(), then the test of the isDefault it read
deleteAddress_deleteOne(p) ==
  LET r == procs[p]
  IN  /\ r.pc = "address.deleteOne"
      /\ AddressFrame
      /\ UNCHANGED calls
      /\ \E address \in r.doc :
           /\ addresses' = {a \in addresses : a._id # address._id}
           /\ IF address.isDefault
              THEN Goto(p, r, "Address.findOne")
              ELSE Finish(p, r, "ok")

\* deleteAddress: Address.findOne({ userId }).sort({ updatedAt: -1 }) and
\* firstAddress.isDefault = true; documents with equal updatedAt come in any
\* order
deleteAddress_findFirst(p) ==
  LET r == procs[p]
  IN  /\ r.pc = "Address.findOne"
      /\ AddressFrame
      /\ UNCHANGED <<calls, addresses>>
      /\ \E address \in r.doc :
           IF AddressesOf(address.userId) = {}
           THEN Finish(p, r, "ok")
           ELSE \E firstAddress \in AddressesOf(address.userId) :
                  /\ \A a \in AddressesOf(address.userId) : a.updatedAt <= firstAddress.updatedAt
                  /\ Goto(p, [r EXCEPT !.doc = {[firstAddress EXCEPT !.isDefault = TRUE]},
                                       !.modified = ~firstAddress.isDefault],
                          "pre('save')")

\* updateMany({ userId, _id: { $ne: address._id } }, { $set: { isDefault: false } })
clearOtherDefaults(store, address, t) ==
  {IF a.userId = address.userId /\ a._id # address._id
   THEN [a EXCEPT !.isDefault = FALSE, !.updatedAt = t]
   ELSE a : a \in store}

\* addressSchema.pre('save')
preSave_Address(p) ==
  LET r == procs[p]
  IN  /\ r.pc = "pre('save')"
      /\ AddressFrame
      /\ UNCHANGED calls
      /\ \E address \in r.doc :
           addresses' = IF address.isDefault
                        THEN clearOtherDefaults(addresses, address, now)
                        ELSE addresses
      /\ Goto(p, r, "save")

\* the write of save(): an insert of a new document, an update by _id of the
\* modified paths of a stored one, nothing when no path is modified
save_Address(p) ==
  LET r == procs[p]
  IN  /\ r.pc = "save"
      /\ AddressFrame
      /\ UNCHANGED calls
      /\ \E address \in r.doc :
           IF r.isNew
           THEN /\ addresses' = addresses \cup {[address EXCEPT !.updatedAt = now]}
                /\ Finish(p, r, "ok")
           ELSE IF ~r.modified
           THEN /\ UNCHANGED addresses
                /\ Finish(p, r, "ok")
           ELSE IF \E a \in addresses : a._id = address._id
           THEN /\ addresses' = {IF a._id = address._id
                                 THEN [a EXCEPT !.isDefault = address.isDefault,
                                                !.updatedAt = now]
                                 ELSE a : a \in addresses}
                /\ Finish(p, r, "ok")
           ELSE /\ UNCHANGED addresses
                /\ Finish(p, r, DocumentNotFound)

CreateAddress ==
  \E p \in Procs, userId \in AddressUsers, isDefault \in BOOLEAN :
    createAddress_countDocuments(p, userId, isDefault)
UpdateAddress ==
  \E p \in Procs, addressId \in AddressIds, addressData \in AddressBodies, userId \in AddressUsers :
    updateAddress_findOne(p, addressId, addressData, userId)
SetDefaultAddress ==
  \E p \in Procs, addressId \in AddressIds, userId \in AddressUsers :
    setDefaultAddress_findOne(p, addressId, userId)
DeleteAddress ==
  \E p \in Procs, addressId \in AddressIds, userId \in AddressUsers :
    deleteAddress_findOne(p, addressId, userId)
DeleteOne == \E p \in Procs : deleteAddress_deleteOne(p)
FindFirst == \E p \in Procs : deleteAddress_findFirst(p)
PreSave == \E p \in Procs : preSave_Address(p)
Save == \E p \in Procs : save_Address(p)

\* the clock of the timestamps moves on once
AddressTick ==
  /\ now = 0
  /\ now' = 1
  /\ UNCHANGED <<users, otps, tokens, res, calls, refreshed, registered, newest, superseded, procs, addresses>>

NextAddress ==
  \/ CreateAddress \/ UpdateAddress \/ SetDefaultAddress \/ DeleteAddress
  \/ DeleteOne \/ FindFirst \/ PreSave \/ Save \/ AddressTick

SpecAddress == Init /\ [][NextAddress]_vars


Next == Register \/ Verify \/ Resend \/ Login \/ Refresh \/ Logout \/ Tick

Spec == Init /\ [][Next]_vars

(***************************** properties **********************************)
InvalidOtp == Fail("Invalid or expired OTP", BAD_REQUEST)
OtpLifetime == OtpExpiryMinutes * TicksPerMinute

\* C1: once refreshTokens(t) has succeeded, every later refreshTokens(t) is
\* rejected with 'Invalid refresh token' (401) and every later logoutUser(t)
\* with 'Invalid refresh token' (400), whatever calls happen in between.
C1_UsedRefreshTokenRejected ==
  [][\A t \in refreshed :
       (calls' # calls /\ res'.arg = t) =>
         /\ res'.op = "refreshTokens" => res'.out = Fail("Invalid refresh token", UNAUTHORIZED)
         /\ res'.op = "logoutUser" => res'.out = Fail("Invalid refresh token", BAD_REQUEST)]_vars

\* C2: a token all of whose stored records are blacklisted or have an expires
\* that is not strictly later than the current time is rejected by
\* refreshTokens and by logoutUser, and the store is left unchanged.
C2_BlacklistedOrExpiredRejected ==
  [][(/\ calls' # calls
      /\ res'.op \in {"refreshTokens", "logoutUser"}
      /\ \E d \in tokens : d.token = res'.arg
      /\ \A d \in tokens : d.token = res'.arg => (d.blacklisted \/ ~(d.expires > now)))
     => /\ ~res'.out.success
        /\ res'.out.error = "Invalid refresh token"
        /\ tokens' = tokens]_vars

\* C3: a verification code is accepted at most once: when verifyEmail(email,
\* code) has succeeded and the next call is verifyEmail with the same email
\* and code, that call returns 'Invalid or expired OTP' (400).
C3_CodeAcceptedOnce ==
  [][(/\ res.op = "verifyEmail" /\ res.out.success
      /\ calls' # calls
      /\ res'.op = "verifyEmail" /\ res'.email = res.email /\ res'.secret = res.secret)
     => res'.out = InvalidOtp]_vars

\* C3: the second verifyEmail with the used, still unexpired code was rejected
C3_Witness ==
  /\ res.op = "verifyEmail" /\ res.out = InvalidOtp
  /\ \E o \in otps : o.email = res.email /\ o.otp = res.secret /\ o.isUsed /\ o.expires > now

C5_ExpiredCodeRejected ==
  [][/\ \A o \in otps' \ otps : ~o.isUsed => o.expires = now + OtpLifetime
     /\ (/\ calls' # calls
         /\ res'.op = "verifyEmail"
         /\ \A o \in otps : (o.email = res'.email /\ o.otp = res'.secret) => ~(now < o.expires))
        => res'.out = InvalidOtp]_vars

\* C5: verifyEmail rejected the stored, unused code at the very instant it expired
C5_Witness ==
  /\ res.op = "verifyEmail" /\ res.out = InvalidOtp
  /\ \E o \in otps : /\ o.email = res.email /\ o.otp = res.secret /\ ~o.isUsed
                     /\ now = o.expires /\ o.expires = o.createdAt + OtpLifetime

\* C6: loginUser with the correct password of an unverified user always
\* returns 'Email not verified' (403), issues no token and leaves a freshly
\* issued code in the store; only verified users get a token pair.
C6_UnverifiedLoginRejected ==
  [][(calls' # calls /\ res'.op = "loginUser") =>
       /\ (\E u \in users : /\ u.email = res'.email /\ ~u.isEmailVerified
                            /\ bcryptCompare(res'.secret, u.password))
            => /\ res'.out.error = "Email not verified"
               /\ res'.out.statusCode = FORBIDDEN
               /\ tokens' = tokens
               /\ \E o \in otps' : o.email = res'.email /\ ~o.isUsed /\ o.createdAt = now
       /\ res'.out.success
            => \E u \in users : u.email = res'.email /\ u.isEmailVerified]_vars

\* C7: a failed mail send is never fatal: createUser, resendVerificationOTP
\* and loginUser return the same kind of result as when the send succeeds,
\* never an Internal (500) error.
C7_MailFailureNotFatal ==
  res.mail = "failed" =>
    /\ res.out.statusCode # INTERNAL_SERVER_ERROR
    /\ res.op \in {"createUser", "resendVerificationOTP"} => res.out.success
    /\ res.op = "loginUser" => res.out.error = "Email not verified"

\* C8: when the dispatch fails inside createUser the registration stands:
\* createUser returns success with the 'failed to send' message, the user
\* record is in the store, unverified, no user record is ever removed, and a
\* createUser for an email that has a user record is rejected as registered.
C8_DispatchFailureKeepsUser ==
  [][/\ (calls' # calls /\ res'.op = "createUser" /\ res'.mail = "failed")
          => /\ res'.out.success
             /\ res'.out.message = "User created successfully but failed to send verification email."
             /\ \E u \in users' \ users : /\ u.email = res'.email /\ u._id = res'.out.data
                                          /\ ~u.isEmailVerified
     /\ \A u \in users : \E v \in users' : v.email = u.email /\ v._id = u._id
     /\ (calls' # calls /\ res'.op = "createUser" /\ \E u \in users : u.email = res'.email)
          => res'.out = Fail("Email already registered", BAD_REQUEST)]_vars

\* C8: createUser has returned after a failed dispatch and its user is stored
C8_Witness ==
  /\ res.op = "createUser" /\ res.mail = "failed" /\ res.out.success
  /\ \E u \in users : u.email = res.email /\ u._id = res.out.data /\ ~u.isEmailVerified

\* C9: loginUser returns the same result, 'Invalid credentials' (401) and no
\* other field, for an email without a user record and for a wrong password,
\* and changes no store.
C9_InvalidCredentialsUniform ==
  [][(/\ calls' # calls
      /\ res'.op = "loginUser"
      /\ \A u \in users : u.email = res'.email => ~bcryptCompare(res'.secret, u.password))
     => /\ res'.out = Fail("Invalid credentials", UNAUTHORIZED)
        /\ res'.mail = "none"
        /\ UNCHANGED <<users, otps, tokens>>]_vars

\* C9: loginUser has rejected a wrong password of an existing user while
\* another email has no user record
C9_Witness ==
  /\ res.op = "loginUser" /\ res.out = Fail("Invalid credentials", UNAUTHORIZED)
  /\ \E u \in users : u.email = res.email /\ ~bcryptCompare(res.secret, u.password)
  /\ \E e \in Emails : \A u \in users : u.email # e

\* C10: after createUser has succeeded for an email, every later createUser
\* with that email is rejected with 'Email already registered', creates no
\* user record and issues no code, whatever its other fields are.
C10_DuplicateEmailRejected ==
  [][(calls' # calls /\ res'.op = "createUser" /\ res'.email \in registered)
     => /\ res'.out = Fail("Email already registered", BAD_REQUEST)
        /\ users' = users
        /\ otps' = otps]_vars

\* C10: a second createUser for a registered email, with another password
\* than the stored one, was rejected
C10_Witness ==
  /\ res.op = "createUser" /\ res.out = Fail("Email already registered", BAD_REQUEST)
  /\ res.email \in registered
  /\ \E u \in users : u.email = res.email /\ ~bcryptCompare(res.secret, u.password)

\* C12: logoutUser(t) returns 'Invalid refresh token' (400) and leaves the
\* token store unchanged whenever t has no stored record or a stored record
\* of t is already blacklisted.
C12_LogoutRejectsUnknownOrBlacklisted ==
  [][(/\ calls' # calls
      /\ res'.op = "logoutUser"
      /\ \/ \A d \in tokens : d.token # res'.arg
         \/ \E d \in tokens : d.token = res'.arg /\ d.blacklisted)
     => /\ res'.out = Fail("Invalid refresh token", BAD_REQUEST)
        /\ tokens' = tokens]_vars

\* C13: every call that returns a refresh token has inserted a record for it
\* with blacklisted = false, and refreshTokens and logoutUser reject every
\* token string that has no record in the store and leave the store unchanged.
C13_StoreAuthoritative ==
  [][calls' # calls =>
       /\ res'.out.token # NoToken
            => \E d \in tokens' \ tokens : d.token = res'.out.token /\ ~d.blacklisted
       /\ (/\ res'.op \in {"refreshTokens", "logoutUser"}
           /\ \A d \in tokens : d.token # res'.arg)
            => /\ ~res'.out.success
               /\ res'.out.error = "Invalid refresh token"
               /\ tokens' = tokens]_vars

\* C13: a well-formed token string without a record was rejected while the
\* store holds a usable record of an issued token
C13_Witness ==
  /\ res.op \in {"refreshTokens", "logoutUser"}
  /\ res.arg = ForgedToken
  /\ res.out.error = "Invalid refresh token"
  /\ \A d \in tokens : d.token # res.arg
  /\ \E d \in tokens : ~d.blacklisted /\ d.expires > now

\* C14: every successful refreshTokens(t) blacklists a record of t that was
\* usable, and returns a token string different from t that has a
\* non-blacklisted record of its own.
C14_Rotation ==
  [][(calls' # calls /\ res'.op = "refreshTokens" /\ res'.out.success)
     => /\ \E d \in tokens : /\ d.token = res'.arg /\ ~d.blacklisted
                             /\ [d EXCEPT !.blacklisted = TRUE] \in tokens'
        /\ res'.out.token # res'.arg
        /\ \E d \in tokens' : d.token = res'.out.token /\ ~d.blacklisted]_vars

\* C15: no two records of the token store carry the same token string.
C15_TokenStringsUnique ==
  \A d \in tokens : \A e \in tokens : d.token = e.token => d = e

\* C19: resendVerificationOTP returns 'User not found' (404) when no user has
\* the email and 'Email already verified' (400) when the user is verified; in
\* both cases the code store is unchanged and no mail is sent.
C19_ResendRejected ==
  [][(calls' # calls /\ res'.op = "resendVerificationOTP") =>
       /\ (\A u \in users : u.email # res'.email)
            => /\ res'.out = Fail("User not found", NOT_FOUND)
               /\ otps' = otps
               /\ res'.mail = "none"
       /\ (\E u \in users : u.email = res'.email /\ u.isEmailVerified)
            => /\ res'.out = Fail("Email already verified", BAD_REQUEST)
               /\ otps' = otps
               /\ res'.mail = "none"]_vars

\* C19: a resend for a verified user was rejected and the used code of that
\* user is still in the store
C19_Witness ==
  /\ res.op = "resendVerificationOTP"
  /\ res.out = Fail("Email already verified", BAD_REQUEST)
  /\ res.mail = "none"
  /\ \E u \in users : u.email = res.email /\ u.isEmailVerified
  /\ \E o \in otps : o.email = res.email /\ o.isUsed

\* C20: verifyEmail returns the one result 'Invalid or expired OTP' (400),
\* and changes no store, when no code is stored for the email, and when each
\* stored code of the email is used, expired or different from the submitted one.
C20_RejectionsIndistinguishable ==
  [][(/\ calls' # calls
      /\ res'.op = "verifyEmail"
      /\ \A o \in otps : (o.email = res'.email /\ o.purpose = "verification")
                           => (o.isUsed \/ o.expires <= now \/ o.otp # res'.secret))
     => /\ res'.out = InvalidOtp
        /\ UNCHANGED <<users, otps, tokens>>]_vars

\* C20: verifyEmail rejected a code for an email that never had a code, while
\* the same code value is stored, unused and unexpired, for another email
C20_Witness ==
  /\ res.op = "verifyEmail" /\ res.out = InvalidOtp
  /\ newest[res.email] = Absent
  /\ \A o \in otps : o.email # res.email
  /\ \E o \in otps : o.otp = res.secret /\ ~o.isUsed /\ o.expires > now

\* C16: the end-to-end scenario, step by step, with each call made before
\* the code or token it presents expires: after a successful createUser a
\* verifyEmail with a wrong code is rejected with 'Invalid or expired OTP';
\* the following verifyEmail with the issued code succeeds and returns a
\* refresh token; refreshTokens with that token succeeds and returns a token;
\* and a second refreshTokens with the first token is rejected with
\* 'Invalid refresh token' (401).
C16_EndToEnd ==
  [][calls' # calls =>
       /\ (/\ res.op = "createUser" /\ res.out.success
           /\ res'.op = "verifyEmail" /\ res'.email = res.email
           /\ res'.secret # newest[res.email])
            => res'.out = InvalidOtp
       /\ (/\ \/ res.op = "createUser" /\ res.out.success
              \/ res.op = "verifyEmail" /\ res.out = InvalidOtp
           /\ res'.op = "verifyEmail" /\ res'.email = res.email
           /\ res'.secret = newest[res.email]
           /\ \E o \in otps : /\ o.email = res.email /\ o.otp = res'.secret
                              /\ ~o.isUsed /\ o.expires > now)
            => res'.out.success /\ res'.out.token # NoToken
       /\ (/\ res.op = "verifyEmail" /\ res.out.success
           /\ res'.op = "refreshTokens" /\ res'.arg = res.out.token
           /\ \A d \in tokens : d.token = res'.arg => d.expires > now)
            => res'.out.success /\ res'.out.token # NoToken
       /\ (/\ res.op = "refreshTokens" /\ res.out.success
           /\ res'.op = "refreshTokens" /\ res'.arg = res.arg)
            => res'.out = Fail("Invalid refresh token", UNAUTHORIZED)]_vars

\* C11: createUser stores the salted hash of the submitted password, which
\* comparePassword matches with that password; no later call changes the
\* stored password of a user, so it is hashed once and never re-hashed; and
\* no stored password is a plaintext password.
C11_PasswordHashedOnce ==
  [][/\ (calls' # calls /\ res'.op = "createUser" /\ res'.out.success)
          => \E u \in users' \ users :
               /\ u._id = res'.out.data /\ u.email = res'.email
               /\ \E salt \in Salts : u.password = bcryptHash(res'.secret, salt)
               /\ comparePassword(u, res'.secret)
     /\ \A u \in users : \E v \in users' : v._id = u._id /\ v.password = u.password
     /\ \A u \in users' :
          u.password \notin Passwords \cup ProfilePasswords \cup {Credentials.password}]_vars

\* C11: a user who was verified (saved again) and whose profile was updated
\* has logged in with the password of the registration
C11_Witness ==
  /\ res.op = "loginUser" /\ res.out.success
  /\ \E u \in users : /\ u.email = res.email /\ u.isEmailVerified /\ u.name = "Ravi"
                      /\ u.password = bcryptHash(res.secret, "salt")

\* C17: updateUserProfile leaves the code store and the token store
\* unchanged, adds and removes no user, leaves every other user record as it
\* is, and leaves the _id, email, password, isEmailVerified and
\* isMobileVerified of the target user unchanged, whatever keys the input has.
C17_OnlyProfileFieldsChange ==
  [][(calls' # calls /\ res'.op = "updateUserProfile")
     => /\ otps' = otps
        /\ tokens' = tokens
        /\ Cardinality(users') = Cardinality(users)
        /\ \A u \in users : \E v \in users' :
             /\ v._id = u._id
             /\ v.email = u.email
             /\ v.password = u.password
             /\ v.isEmailVerified = u.isEmailVerified
             /\ v.isMobileVerified = u.isMobileVerified
             /\ u._id # res'.userId => v = u]_vars

\* C17: an update whose input carried email, password and the verification
\* flags next to name has succeeded: the name is changed, the other fields
\* are not, and another user is in the store
C17_Witness ==
  /\ res.op = "updateUserProfile" /\ res.out.success
  /\ "email" \in DOMAIN res.updateData /\ "name" \in DOMAIN res.updateData
  /\ \E u \in users : /\ u._id = res.userId /\ u.name = res.updateData.name
                      /\ u.email # res.updateData.email
                      /\ ~u.isEmailVerified
                      /\ ~bcryptCompare(res.updateData.password, u.password)
  /\ \E u \in users : u._id # res.userId

\* C18: updateUserProfile by a stored user with a username that a different user has is
\* rejected with 'Username already taken' (400) and changes no user record;
\* with the caller's own current username it is not rejected as taken; and
\* after every call no two users have the same username.
C18_UsernameTakenRejected ==
  [][/\ (/\ calls' # calls
         /\ res'.op = "updateUserProfile"
         /\ \E u \in users : u._id = res'.userId
         /\ "username" \in DOMAIN res'.updateData)
          => /\ (\E u \in users : /\ u._id # res'.userId
                                  /\ u.username = res'.updateData.username)
                  => /\ res'.out = Fail("Username already taken", BAD_REQUEST)
                     /\ users' = users
             /\ (/\ \E u \in users : /\ u._id = res'.userId
                                     /\ u.username = res'.updateData.username
                 /\ \A u \in users : u._id # res'.userId
                                       => u.username # res'.updateData.username)
                  => res'.out.error # "Username already taken"
     /\ \A u \in users' : \A v \in users' :
          (u.username = v.username /\ u.username # Absent) => u = v]_vars

\* C27: after every step each token record is owned by a user whose
\* isEmailVerified is true, a call that returns a refresh token returns it for
\* a verified user, and isEmailVerified never goes back from true to false.
C27_TokensOnlyForVerifiedUsers ==
  [][/\ \A d \in tokens' : \E u \in users' : u._id = d.user /\ u.isEmailVerified
     /\ \A d \in tokens' \ tokens : \E u \in users : u._id = d.user
     /\ \A u \in users : u.isEmailVerified
          => \E v \in users' : v._id = u._id /\ v.isEmailVerified]_vars

\* C27: a verified user holds a token while an unverified user, whose
\* profile update carried isEmailVerified = true, is still unverified
C27_Witness ==
  /\ res.op = "updateUserProfile" /\ res.out.success
  /\ "isEmailVerified" \in DOMAIN res.updateData
  /\ \E u \in users : u._id = res.userId /\ ~u.isEmailVerified
  /\ \E d \in tokens : \E u \in users : u._id = d.user /\ u.isEmailVerified

\* C29: a verifyEmail that is rejected with 'Invalid or expired OTP' changes
\* no user, code or token record, and a verifyEmail that follows a rejected
\* one for the same email and presents the stored code, unused and unexpired,
\* succeeds.
C29_RejectedVerifyChangesNothing ==
  [][(calls' # calls /\ res'.op = "verifyEmail") =>
       /\ res'.out = InvalidOtp => UNCHANGED <<users, otps, tokens>>
       /\ (/\ res.op = "verifyEmail" /\ res.out = InvalidOtp /\ res.email = res'.email
           /\ \E o \in otps : /\ o.email = res'.email /\ o.purpose = "verification"
                              /\ o.otp = res'.secret /\ ~o.isUsed /\ o.expires > now)
            => res'.out.success]_vars

\* C29: verifyEmail with a wrong code was rejected and the stored code is
\* still unused and unexpired, the user unverified and no token recorded
C29_Witness ==
  /\ res.op = "verifyEmail" /\ res.out = InvalidOtp
  /\ \E o \in otps : /\ o.email = res.email /\ o.otp # res.secret
                     /\ ~o.isUsed /\ o.expires > now
  /\ \E u \in users : u.email = res.email /\ ~u.isEmailVerified
  /\ tokens = {}

\* C21 as stated: refreshTokens with a stored, usable token whose owner is not
\* in the user store returns the result of an unknown token, 'Invalid refresh
\* token' (401), and leaves the token store unchanged.
C21_MissingUserIsInvalidToken ==
  [][\A p \in Procs :
       (/\ procs[p].pc = "User.findById" /\ procs'[p].pc # procs[p].pc
        /\ \A d \in procs[p].doc : UsersById(d.user) = {})
       => /\ procs'[p].pc = "done"
          /\ procs'[p].out = Fail("Invalid refresh token", UNAUTHORIZED)
          /\ tokens' = tokens]_vars

\* C22: after every step no two users have the same email, and a
\* User.create that runs when another call has inserted the email since the
\* existence check fails and creates no record.
C22_EmailUnique ==
  [][/\ \A u \in users' : \A v \in users' : u.email = v.email => u = v
     /\ \A p \in Procs :
          (/\ procs[p].pc = "User.create" /\ procs'[p].pc # procs[p].pc
           /\ UsersByEmail(procs[p].email) # {})
          => /\ users' = users
             /\ procs'[p].pc = "done"
             /\ ~procs'[p].out.success]_vars

\* C22: two createUser calls for one email both passed the existence check;
\* one created the user, the other failed on the index
C22_Witness ==
  \E p \in Procs : \E q \in Procs \ {p} :
    /\ procs[p].op = "createUser" /\ procs[q].op = "createUser"
    /\ procs[p].email = procs[q].email
    /\ procs[p].pc = "done" /\ procs[p].out.success
    /\ procs[q].pc = "done" /\ procs[q].out = Fail(DuplicateKey, INTERNAL_SERVER_ERROR)
    /\ Cardinality(UsersByEmail(procs[p].email)) = 1

\* C23: a verifyEmail that succeeds makes its effects in this order: the save
\* of the matched code writes isUsed = true and nothing else; the save of the
\* user writes isEmailVerified = true when the code is already used, and no
\* token; the call returns success only from the step that inserts the
\* refresh token it returns, with the code used and the user verified.
C23_VerifyEffectsInOrder ==
  [][\A p \in Procs :
       (procs'[p].op = "verifyEmail" /\ procs'[p].pc # procs[p].pc) =>
         /\ (procs[p].pc = "otp.isUsed" /\ procs'[p].pc = "User.findOne")
              => /\ \A o \in procs[p].doc : \E d \in otps' : d._id = o._id /\ d.isUsed
                 /\ users' = users
                 /\ tokens' = tokens
         /\ (procs[p].pc = "user.save" /\ procs'[p].pc = "Token.create")
              => /\ \A o \in procs[p].doc : \A d \in otps : d._id = o._id => d.isUsed
                 /\ \E u \in users' : u.email = procs[p].email /\ u.isEmailVerified
                 /\ tokens' = tokens
         /\ (procs'[p].pc = "done" /\ procs'[p].out.success)
              => /\ procs[p].pc = "Token.create"
                 /\ \A o \in procs[p].doc : \A d \in otps : d._id = o._id => d.isUsed
                 /\ \A u \in users : u._id = procs'[p].out.data => u.isEmailVerified
                 /\ \E d \in tokens' \ tokens : /\ d.token = procs'[p].out.token
                                                /\ d.user = procs'[p].out.data
                                                /\ ~d.blacklisted]_vars

\* C23: verifyEmail has returned success; the code it matched is stored as
\* used, the user is verified and the returned token has a record
C23_Witness ==
  \E p \in Procs :
    /\ procs[p].op = "verifyEmail" /\ procs[p].pc = "done" /\ procs[p].out.success
    /\ \E o \in procs[p].doc : \E d \in otps : d._id = o._id /\ d.isUsed
    /\ \E u \in users : /\ u.email = procs[p].email /\ u.isEmailVerified
                        /\ u._id = procs[p].out.data
    /\ \E d \in tokens : d.token = procs[p].out.token /\ ~d.blacklisted

\* C24 as stated: in every state at most one unused, unexpired code is stored
\* per (email, purpose).
C24_OneActiveCode ==
  \A e \in Emails : Cardinality(ActiveOtps(otps, e, "verification", now)) <= 1

\* C24: a saveOTP into whose window between deleteMany and insert no other
\* insert for the same email falls leaves exactly one unused, unexpired code
\* for the email; two interleaved issuances can leave two.
C24_OneActiveCodeUnlessOvertaken ==
  [][\A p \in Procs :
       (procs[p].pc = "otp.save" /\ procs'[p].pc = "done" /\ ~procs[p].raced)
       => Cardinality(ActiveOtps(otps', procs[p].email, "verification", now)) = 1]_vars

\* C24: two issuances for one email ran one after the other and the code of
\* the later one is the only one stored
C24_Witness ==
  \E p \in Procs : \E q \in Procs \ {p} :
    /\ procs[p].pc = "done" /\ procs[q].pc = "done"
    /\ procs[p].op = "resendVerificationOTP" /\ procs[p].out.success
    /\ procs[q].op \in {"createUser", "resendVerificationOTP"} /\ procs[q].out.success
    /\ procs[p].email = procs[q].email
    /\ ~procs[p].raced /\ ~procs[q].raced
    /\ procs[p].n > procs[q].n
    /\ ActiveOtps(otps, procs[p].email, "verification", now) = procs[p].doc

\* C25: the blacklisting write of refreshTokens is unconditional: a handler
\* that has read the record always goes on to issue a token, and the record
\* is blacklisted after its write whether or not it was before.
C25_RotationUnguarded ==
  [][\A p \in Procs :
       (procs[p].pc = "Token.findByIdAndUpdate" /\ procs'[p].pc # procs[p].pc)
       => /\ procs'[p].pc = "Token.create"
          /\ \A o \in procs[p].doc : \E d \in tokens' : d._id = o._id /\ d.blacklisted]_vars

\* C25: two refreshTokens calls with the same token read the same record and
\* both returned success, each with a record it inserted
C25_Witness ==
  /\ \A p \in Procs : /\ procs[p].op = "refreshTokens" /\ procs[p].pc = "done"
                      /\ procs[p].out.success
                      /\ \E d \in tokens : d.token = procs[p].out.token /\ ~d.blacklisted
  /\ procs[1].arg = procs[2].arg
  /\ procs[1].doc = procs[2].doc /\ procs[1].doc # {}
  /\ Cardinality({d \in tokens : ~d.blacklisted}) >= 2

\* C28: when refreshTokens returns an error and no other refreshTokens call
\* has run in the other handler, the record of the presented token is in the
\* store as it was read, non-blacklisted.
C28_FailedRefreshChangesNothing ==
  [][\A p \in Procs :
       (/\ procs'[p].op = "refreshTokens"
        /\ procs'[p].pc = "done" /\ procs'[p] # procs[p]
        /\ ~procs'[p].out.success
        /\ \A q \in Procs \ {p} : procs[q].op # "refreshTokens")
       => \A o \in procs'[p].doc : o \in tokens' /\ ~o.blacklisted]_vars

\* C30: no two verifyEmail calls that matched the same stored code have both
\* returned success.
C30_OneSuccessPerCode ==
  ~(/\ \A p \in Procs : /\ procs[p].op = "verifyEmail" /\ procs[p].pc = "done"
                       /\ procs[p].out.success
    /\ procs[1].doc = procs[2].doc /\ procs[1].doc # {})

\* C26: in every state each user has at most one address with
\* isDefault = true, however the address handlers interleave.
C26_OneDefaultPerUser ==
  \A userId \in AddressUsers :
    Cardinality({a \in AddressesOf(userId) : a.isDefault}) <= 1
====
